---- MODULE Spec2Model ----
(***************************************************************************)
(* Model of zjld::LookupTableND and its fixed-arity overlays LookupTable2D *)
(* and LookupTable3D (multilinear interpolation over rectilinear grids).   *)
(*                                                                         *)
(* A C++ double is modelled as an exact rational <<n, d>> in lowest terms  *)
(* with d > 0.  All grid values of the model are small integers and all    *)
(* query values are integers or half-integers, so every quotient the code  *)
(* forms has a power-of-two denominator and the exact rational arithmetic  *)
(* coincides with IEEE-754 double arithmetic on these inputs.              *)
(***************************************************************************)
EXTENDS Integers, Sequences, FiniteSets, TLC

VARIABLES
    kind,       \* dynamic type of the object: "ND", "2D" or "3D"
    _indepData, \* LookupTableND::_indepData (sequence of axes)
    _depData,   \* LookupTableND::_depData
    _valid,     \* LookupTableND::_valid
    last        \* the call the caller made last and what it returned

vars == <<kind, _indepData, _depData, _valid, last>>

(***************************************************************************)
(* Bounds of the model.                                                    *)
(***************************************************************************)
MaxDims == 3      \* candidate data sets have 0..MaxDims independent arrays
MaxAxisLen == 3   \* every candidate axis has 0..MaxAxisLen elements
MaxDepLen == 8    \* well-sized candidates have at most MaxDepLen values
MaxOffBy == 1     \* a badly sized dependent array is off by 1..MaxOffBy

(***************************************************************************)
(* Rational arithmetic standing for double arithmetic.                     *)
(***************************************************************************)
Abs(x) == IF x < 0 THEN -x ELSE x

RECURSIVE GCD(_, _)
GCD(a, b) == IF b = 0 THEN a ELSE GCD(b, a % b)

Norm(n, d) ==
    LET s == IF d < 0 THEN -1 ELSE 1
        g == GCD(Abs(n), Abs(d))
    IN  <<(s * n) \div g, (s * d) \div g>>

R(i) == <<i, 1>>
RAdd(a, b) == Norm(a[1] * b[2] + b[1] * a[2], a[2] * b[2])
RSub(a, b) == Norm(a[1] * b[2] - b[1] * a[2], a[2] * b[2])
RMul(a, b) == Norm(a[1] * b[1], a[2] * b[2])
RDiv(a, b) == Norm(a[1] * b[2], a[2] * b[1])
RLt(a, b) == a[1] * b[2] < b[1] * a[2]
RLe(a, b) == a[1] * b[2] <= b[1] * a[2]
RAbs(a) == <<Abs(a[1]), a[2]>>
RMax(a, b) == IF RLt(a, b) THEN b ELSE a
\* static_cast<size_t>(x) of a non-negative double: truncation
Trunc(a) == a[1] \div a[2]

(***************************************************************************)
(* utils.h                                                                 *)
(***************************************************************************)
kEpsFactor == 5              \* the 5.0 buffer in IsApproxEqual
kEpsInvSqrt == 67108864      \* 2^26: numeric_limits<double>::epsilon() = 2^-52

\* diff <= max * epsilon * 5.0, with max = std::max(A, B) (signed, no abs).
\* For max = mn/md and diff = dn/dd (dn, dd, md > 0 or dn = 0) this is
\* dn * md * 2^52 <= 5 * mn * dd, i.e. dn * md <= floor(5 * mn * dd / 2^52).
IsApproxEqual(A, B) ==
    LET diff == RAbs(RSub(A, B))
        max == RMax(A, B)
        eps52 == ((kEpsFactor * max[1] * diff[2]) \div kEpsInvSqrt) \div kEpsInvSqrt
    IN  diff[1] * max[2] <= eps52

Lerp(aValA, aValB, aPercentProgress) ==
    RAdd(aValA, RMul(aPercentProgress, RSub(aValB, aValA)))

ILerp(aValA, aValB, aValToCompare) ==
    IF IsApproxEqual(aValA, aValB)
    THEN R(0)
    ELSE RDiv(RSub(aValToCompare, aValA), RSub(aValB, aValA))

(***************************************************************************)
(* Outcome of a fallible call: a value, or the what() of the exception.    *)
(***************************************************************************)
NoVal == <<>>
Ok(v) == [ok |-> TRUE, val |-> v, err |-> ""]
Err(m) == [ok |-> FALSE, val |-> NoVal, err |-> m]

kErrInvalid == "Unable to operate on invalid table."
kErrArity == "Must provide one input per independent variable."
kErrInput == "Input out of bounds."
kErrCalc == "Calculated index out of bounds."
kErrDim == "Invalid dimension provided."
kErrEmpty == "Data vector is empty."
kErrDomain == "Value given is outside of data bounds. (Extrapolation not supported.)"
kErrAt == "vector::at: out of range"

(***************************************************************************)
(* Validation (LookupTableND.cpp 64-87, 364-374; overlays 2D/3D 35-43)     *)
(***************************************************************************)
Kinds == {"ND", "2D", "3D"}

RECURSIVE SizeProduct(_, _)
\* reqSize *= aFullDataSet.at(i).size() for i = 0 .. n-1
SizeProduct(aFullDataSet, n) ==
    IF n = 0 THEN 1 ELSE SizeProduct(aFullDataSet, n - 1) * Len(aFullDataSet[n])

\* the comparison of adjacent elements with > in place of >=
CheckMonotonicallyIncreasingLoose(aFullDataSet) ==
    \A i \in 1..(Len(aFullDataSet) - 1) :
        \A j \in 2..Len(aFullDataSet[i]) :
            ~ RLt(aFullDataSet[i][j], aFullDataSet[i][j - 1])

CheckMonotonicallyIncreasing(aFullDataSet) ==
    \A i \in 1..(Len(aFullDataSet) - 1) :
        \A j \in 2..Len(aFullDataSet[i]) :
            ~ RLe(aFullDataSet[i][j], aFullDataSet[i][j - 1])

\* the minimum number of arrays off by one
IsValidSourceDataNDMinFour(aFullDataSet) ==
    IF Len(aFullDataSet) < 4
    THEN FALSE
    ELSE IF SizeProduct(aFullDataSet, Len(aFullDataSet) - 1)
              # Len(aFullDataSet[Len(aFullDataSet)])
         THEN FALSE
         ELSE CheckMonotonicallyIncreasing(aFullDataSet)

IsValidSourceDataND(aFullDataSet) ==
    IF Len(aFullDataSet) < 3
    THEN FALSE
    ELSE IF SizeProduct(aFullDataSet, Len(aFullDataSet) - 1)
              # Len(aFullDataSet[Len(aFullDataSet)])
         THEN FALSE
         ELSE CheckMonotonicallyIncreasing(aFullDataSet)

IsValidSourceData2D(aFullDataSet) ==
    IF Len(aFullDataSet) # 3
    THEN FALSE
    ELSE /\ Len(aFullDataSet[1]) * Len(aFullDataSet[2]) = Len(aFullDataSet[3])
         /\ CheckMonotonicallyIncreasing(aFullDataSet)

IsValidSourceData3D(aData) ==
    IF Len(aData) # 4
    THEN FALSE
    ELSE /\ Len(aData[1]) * Len(aData[2]) * Len(aData[3]) = Len(aData[4])
         /\ CheckMonotonicallyIncreasing(aData)

\* virtual dispatch on the dynamic type k
IsValidSourceData(k, aFullDataSet) ==
    CASE k = "2D" -> IsValidSourceData2D(aFullDataSet)
      [] k = "3D" -> IsValidSourceData3D(aFullDataSet)
      [] OTHER -> IsValidSourceDataND(aFullDataSet)

\* the two-argument overload (not virtual; calls the virtual one)
IsValidSourceDataSplit(k, aIndepDataSet, aDepData) ==
    IF Len(aIndepDataSet) < 2
    THEN FALSE
    ELSE IsValidSourceData(k, Append(aIndepDataSet, aDepData))

(***************************************************************************)
(* Population (LookupTableND.cpp 36-62, 89-108)                            *)
(***************************************************************************)
EmptyTable == [indep |-> <<>>, dep |-> <<>>, valid |-> FALSE]

\* the table PopulateData(aFullDataSet) leaves behind when the virtual
\* IsValidSourceData resolves to class k
Populated(k, aFullDataSet) ==
    IF IsValidSourceData(k, aFullDataSet)
    THEN [indep |-> SubSeq(aFullDataSet, 1, Len(aFullDataSet) - 1),
          dep |-> aFullDataSet[Len(aFullDataSet)],
          valid |-> TRUE]
    ELSE EmptyTable

(***************************************************************************)
(* Lookup by indices (LookupTableND.cpp 114-191).  Indices are 0-based as  *)
(* in the code; TLA+ sequences are 1-based, so v.at(i) is v[i + 1].        *)
(***************************************************************************)
RECURSIVE IndexLoopLastFastest(_, _, _, _)
\* the loop with the strides the other way round (last axis fastest)
IndexLoopLastFastest(aInputs, i, idx, prod) ==
    IF i < Len(aInputs)
    THEN LET tmpSize == Len(_indepData[i + 1])
         IN  IF aInputs[i + 1] >= tmpSize
             THEN Err(kErrInput)
             ELSE IndexLoopLastFastest(aInputs, i + 1, idx * tmpSize + aInputs[i + 1],
                                       prod * tmpSize)
    ELSE IF idx >= Len(_depData)
         THEN Err(kErrCalc)
         ELSE Ok(idx)

RECURSIVE IndexLoopOffByOne(_, _, _, _)
\* the loop with the bound test 'aInputs.at(i) > tmpSize'
IndexLoopOffByOne(aInputs, i, idx, prod) ==
    IF i < Len(aInputs)
    THEN LET tmpSize == Len(_indepData[i + 1])
         IN  IF aInputs[i + 1] > tmpSize
             THEN Err(kErrInput)
             ELSE IndexLoopOffByOne(aInputs, i + 1, idx + aInputs[i + 1] * prod,
                                    prod * tmpSize)
    ELSE IF idx >= Len(_depData)
         THEN Err(kErrCalc)
         ELSE Ok(idx)

RECURSIVE IndexLoop(_, _, _, _)
\* the for loop of LookupIndexAt from iteration i on, then the final check
IndexLoop(aInputs, i, idx, prod) ==
    IF i < Len(aInputs)
    THEN LET tmpSize == Len(_indepData[i + 1])
         IN  IF aInputs[i + 1] >= tmpSize
             THEN Err(kErrInput)
             ELSE IndexLoop(aInputs, i + 1, idx + aInputs[i + 1] * prod, prod * tmpSize)
    ELSE IF idx >= Len(_depData)
         THEN Err(kErrCalc)
         ELSE Ok(idx)

\* LookupIndexAt without its test of _valid
LookupIndexAtUnguarded(aInputs) ==
    IF Len(aInputs) # Len(_indepData)
    THEN Err(kErrArity)
    ELSE IndexLoop(aInputs, 0, 0, 1)

LookupIndexAt(aInputs) ==
    IF ~_valid
    THEN Err(kErrInvalid)
    ELSE IF Len(aInputs) # Len(_indepData)
         THEN Err(kErrArity)
         ELSE IndexLoop(aInputs, 0, 0, 1)

\* return _depData.at(<the index LookupIndexAt returned, or its exception>)
DepDataAt(at) == IF at.ok THEN Ok(_depData[at.val + 1]) ELSE at

LookupByIndices(aIndexInputs) ==
    IF ~_valid
    THEN Err(kErrInvalid)
    ELSE DepDataAt(LookupIndexAt(aIndexInputs))

(***************************************************************************)
(* Position helpers (LookupTableND.cpp 292-357)                            *)
(***************************************************************************)
RECURSIVE Search(_, _, _, _, _)
\* the while loop of GetApproxPos; yields <<l, r>> on exit
Search(data, aValue, l, r, m) ==
    IF l < m /\ m < r
    THEN IF IsApproxEqual(aValue, data[m + 1])
         THEN <<m, m>>
         ELSE IF RLt(aValue, data[m + 1])
              THEN Search(data, aValue, l, m, (l + m) \div 2)
              ELSE Search(data, aValue, m, r, (m + r) \div 2)
    ELSE <<l, r>>

\* lines 351-356: the position once the search has ended with l and r
ApproxPosAt(data, aValue, l, r) ==
    IF l = r
    THEN Ok(R(l))
    ELSE IF l >= Len(data) \/ r >= Len(data)
         THEN Err(kErrAt)   \* data.at(l) / data.at(r) throws
         ELSE Ok(RAdd(R(l), ILerp(data[l + 1], data[r + 1], aValue)))

\* lines 337-350: size_t l = 0, r = data.size(), m = (l + r) / 2; while ...
SearchFrom(data, aValue, l, r) == Search(data, aValue, l, r, (l + r) \div 2)

\* lines 329-356, on the axis 'data'
ApproxPosIn(data, aValue) ==
    IF data = <<>>
    THEN Err(kErrEmpty)
    ELSE IF RLt(aValue, data[1]) \/ RLt(data[Len(data)], aValue)
         THEN Err(kErrDomain)
         ELSE ApproxPosAt(data, aValue, SearchFrom(data, aValue, 0, Len(data))[1],
                          SearchFrom(data, aValue, 0, Len(data))[2])

GetApproxPos(aDimension, aValue) ==
    IF ~_valid
    THEN Err(kErrInvalid)
    ELSE IF aDimension >= Len(_indepData)
         THEN Err(kErrDim)
         ELSE ApproxPosIn(_indepData[aDimension + 1], aValue)

\* the edge correction without its carry of 1.0 into the percent progress
PositionAtNoCarry(pos, lowIdx, size) ==
    IF lowIdx > 0 /\ lowIdx = size - 1
    THEN <<lowIdx - 1, RSub(pos, R(lowIdx))>>
    ELSE <<lowIdx, RSub(pos, R(lowIdx))>>

\* lines 307-315: <<*outLowIdx, *outPercProgress>> from the position 'pos'
\* on an axis of 'size' elements
PositionAt(pos, lowIdx, size) ==
    IF lowIdx > 0 /\ lowIdx = size - 1
    THEN <<lowIdx - 1, RAdd(RSub(pos, R(lowIdx)), R(1))>>
    ELSE <<lowIdx, RSub(pos, R(lowIdx))>>

PositionFrom(pos, size) ==
    IF pos.ok THEN Ok(PositionAt(pos.val, Trunc(pos.val), size)) ELSE pos

GetPositionInfo(aDimension, aValue) ==
    IF ~_valid
    THEN Err(kErrInvalid)
    ELSE PositionFrom(GetApproxPos(aDimension, aValue),
                      IF aDimension < Len(_indepData)
                      THEN Len(_indepData[aDimension + 1]) ELSE 0)

(***************************************************************************)
(* Lookup by values, generic (LookupTableND.cpp 194-239)                   *)
(***************************************************************************)
RECURSIVE PositionLoop(_, _, _, _)
\* one iteration of the first loop with the position info it obtained
PositionStep(aValueInputs, i, lowIdxs, prcPrgs, info) ==
    IF info.ok
    THEN PositionLoop(aValueInputs, i + 1,
                      Append(lowIdxs, info.val[1]), Append(prcPrgs, info.val[2]))
    ELSE info

\* first loop of LookupByValues from iteration i on: <<lowIdxs, prcPrgs>>
PositionLoop(aValueInputs, i, lowIdxs, prcPrgs) ==
    IF i < Len(_indepData)
    THEN IF i >= Len(aValueInputs)
         THEN Err(kErrAt)   \* aValueInputs.at(i) throws
         ELSE PositionStep(aValueInputs, i, lowIdxs, prcPrgs,
                           GetPositionInfo(i, aValueInputs[i + 1]))
    ELSE Ok(<<lowIdxs, prcPrgs>>)

RECURSIVE FlipLoop(_, _, _)
\* the inner 'for k' loop on the bits: a binary counter whose least
\* significant bit is the last axis
FlipLoop(bits, k, flipped) ==
    IF k >= 0
    THEN IF ~flipped
         THEN FlipLoop([bits EXCEPT ![k + 1] = ~bits[k + 1]], k - 1, ~bits[k + 1])
         ELSE FlipLoop(bits, k - 1, flipped)
    ELSE bits

\* inps.at(k) = lowIdxs.at(k) + static_cast<size_t>(bits.at(k))
Inps(lowIdxs, bits) ==
    [k \in 1..Len(lowIdxs) |-> lowIdxs[k] + (IF bits[k] THEN 1 ELSE 0)]

RECURSIVE CornerLoop(_, _, _, _, _)
\* one iteration of the corner loop with the value v it looked up
CornerStep(lowIdxs, bits, i, comboCount, vals, v) ==
    IF v.ok
    THEN CornerLoop(lowIdxs, FlipLoop(bits, Len(lowIdxs) - 1, FALSE),
                    i + 1, comboCount, Append(vals, v.val))
    ELSE v

\* the 'for i < comboCount' loop: the values at the corners, in order
CornerLoop(lowIdxs, bits, i, comboCount, vals) ==
    IF i < comboCount
    THEN CornerStep(lowIdxs, bits, i, comboCount, vals,
                    LookupByIndices(Inps(lowIdxs, bits)))
    ELSE Ok(vals)

RECURSIVE PairLoop(_, _, _, _)
\* the 'for j' loop of one collapse round, in place
PairLoop(vals, prc, j, comboCount) ==
    IF j < comboCount
    THEN PairLoop([vals EXCEPT ![j \div 2 + 1] = Lerp(vals[j], vals[j + 1], prc)],
                  prc, j + 2, comboCount)
    ELSE vals

RECURSIVE CollapseLoop(_, _, _, _)
\* the 'for i < kInSize' loop of collapse rounds
CollapseLoop(vals, prcPrgs, i, comboCount) ==
    IF i < Len(prcPrgs)
    THEN CollapseLoop(PairLoop(vals, prcPrgs[Len(prcPrgs) - i], 1, comboCount),
                      prcPrgs, i + 1, comboCount \div 2)
    ELSE vals

\* lines 227-238 on the corner values
Collapse(vals, prcPrgs, comboCount) ==
    IF vals.ok THEN Ok(CollapseLoop(vals.val, prcPrgs, 0, comboCount)[1]) ELSE vals

\* the generic lookup with the corners collapsed along the first axis first
InterpolateFirstAxisFirst(pos, kInSize) ==
    IF pos.ok
    THEN Collapse(CornerLoop(pos.val[1], [k \in 1..kInSize |-> FALSE], 0, 2 ^ kInSize, <<>>),
                  [k \in 1..kInSize |-> pos.val[2][kInSize + 1 - k]], 2 ^ kInSize)
    ELSE pos

\* lines 208-238 on the positions the first loop found
Interpolate(pos, kInSize) ==
    IF pos.ok
    THEN Collapse(CornerLoop(pos.val[1], [k \in 1..kInSize |-> FALSE], 0, 2 ^ kInSize, <<>>),
                  pos.val[2], 2 ^ kInSize)
    ELSE pos

RECURSIVE PairOperands(_, _, _, _, _)
\* the 'for j' loop of one collapse round, with the operands of each Lerp
\* call appended to 'ops': yields <<vals, ops>>
PairOperands(vals, prc, j, comboCount, ops) ==
    IF j < comboCount
    THEN PairOperands([vals EXCEPT ![j \div 2 + 1] = Lerp(vals[j], vals[j + 1], prc)],
                      prc, j + 2, comboCount, Append(ops, <<vals[j], vals[j + 1], prc>>))
    ELSE <<vals, ops>>

RECURSIVE CollapseOperands(_, _, _, _)
\* the collapse rounds from round i on, given <<vals, ops>> so far: the
\* operands of all Lerp calls, in the order of the calls
CollapseOperands(state, prcPrgs, i, comboCount) ==
    IF i < Len(prcPrgs)
    THEN CollapseOperands(PairOperands(state[1], prcPrgs[Len(prcPrgs) - i], 1,
                                       comboCount, state[2]),
                          prcPrgs, i + 1, comboCount \div 2)
    ELSE state[2]

\* the Lerp calls of a successful LookupTableND::LookupByValues, from the
\* positions 'pos' its first loop found
OperandsFrom(pos, kInSize) ==
    CollapseOperands(<<CornerLoop(pos[1], [k \in 1..kInSize |-> FALSE], 0,
                                  2 ^ kInSize, <<>>).val, <<>>>>,
                     pos[2], 0, 2 ^ kInSize)
LerpOperandsND(aValueInputs) ==
    OperandsFrom(PositionLoop(aValueInputs, 0, <<>>, <<>>).val, Len(_indepData))

LookupByValuesND(aValueInputs) ==
    IF ~_valid
    THEN Err(kErrInvalid)
    ELSE Interpolate(PositionLoop(aValueInputs, 0, <<>>, <<>>), Len(_indepData))

(***************************************************************************)
(* Unrolled overlays (LookupTable2D.cpp 88-119, LookupTable3D.cpp 97-138)  *)
(***************************************************************************)
\* statements run in order: the first one that throws ends the call
FirstFailure(outs) ==
    outs[CHOOSE i \in 1..Len(outs) : ~outs[i].ok /\ \A j \in 1..(i - 1) : outs[j].ok]
AllOk(outs) == \A i \in 1..Len(outs) : outs[i].ok

\* LookupTable2D.cpp 107-112 on the corner values <<LL, LH, HL, HH>>
\* the blend with the two fractions exchanged
Blend2DSwapped(c, prc0, prc1) ==
    IF AllOk(c)
    THEN Ok(Lerp(Lerp(c[1].val, c[2].val, prc0), Lerp(c[3].val, c[4].val, prc0), prc1))
    ELSE FirstFailure(c)

Blend2D(c, prc0, prc1) ==
    IF AllOk(c)
    THEN Ok(Lerp(Lerp(c[1].val, c[2].val, prc1), Lerp(c[3].val, c[4].val, prc1), prc0))
    ELSE FirstFailure(c)

\* LookupTable2D.cpp 101-112
Corners2D(low0, low1, prc0, prc1) ==
    Blend2D(<<LookupByIndices(<<low0, low1>>),
              LookupByIndices(<<low0, low1 + 1>>),
              LookupByIndices(<<low0 + 1, low1>>),
              LookupByIndices(<<low0 + 1, low1 + 1>>)>>, prc0, prc1)

Unrolled2D(p) ==
    IF AllOk(p)
    THEN Corners2D(p[1].val[1], p[2].val[1], p[1].val[2], p[2].val[2])
    ELSE FirstFailure(p)

\* LookupTable2D.cpp 110-112: the operands of the three Lerp calls
Operands2D(c, prc0, prc1) ==
    << <<c[1], c[2], prc1>>, <<c[3], c[4], prc1>>,
       <<Lerp(c[1], c[2], prc1), Lerp(c[3], c[4], prc1), prc0>> >>
OperandsAt2D(low0, low1, prc0, prc1) ==
    Operands2D(<<LookupByIndices(<<low0, low1>>).val,
                 LookupByIndices(<<low0, low1 + 1>>).val,
                 LookupByIndices(<<low0 + 1, low1>>).val,
                 LookupByIndices(<<low0 + 1, low1 + 1>>).val>>, prc0, prc1)
\* the Lerp calls of a successful LookupTable2D::LookupByValues
LerpOperands2D(p0, p1) == OperandsAt2D(p0.val[1], p1.val[1], p0.val[2], p1.val[2])

LookupByValues2D(aDim1Value, aDim2Value) ==
    IF ~_valid
    THEN Err(kErrInvalid)
    ELSE Unrolled2D(<<GetPositionInfo(0, aDim1Value), GetPositionInfo(1, aDim2Value)>>)

LookupByValues2DVec(aValueInputs) ==
    IF Len(aValueInputs) # 2
    THEN Err(kErrArity)
    ELSE LookupByValues2D(aValueInputs[1], aValueInputs[2])

\* LookupTable3D.cpp 123-131 on <<LLL, LLH, LHL, LHH, HLL, HLH, HHL, HHH>>
Blend3D(c, prc0, prc1, prc2) ==
    IF AllOk(c)
    THEN Ok(Lerp(Lerp(Lerp(c[1].val, c[2].val, prc2), Lerp(c[3].val, c[4].val, prc2), prc1),
                 Lerp(Lerp(c[5].val, c[6].val, prc2), Lerp(c[7].val, c[8].val, prc2), prc1),
                 prc0))
    ELSE FirstFailure(c)

\* LookupTable3D.cpp 113-131
Corners3D(low0, low1, low2, prc0, prc1, prc2) ==
    Blend3D(<<LookupByIndices(<<low0, low1, low2>>),
              LookupByIndices(<<low0, low1, low2 + 1>>),
              LookupByIndices(<<low0, low1 + 1, low2>>),
              LookupByIndices(<<low0, low1 + 1, low2 + 1>>),
              LookupByIndices(<<low0 + 1, low1, low2>>),
              LookupByIndices(<<low0 + 1, low1, low2 + 1>>),
              LookupByIndices(<<low0 + 1, low1 + 1, low2>>),
              LookupByIndices(<<low0 + 1, low1 + 1, low2 + 1>>)>>, prc0, prc1, prc2)

Unrolled3D(p) ==
    IF AllOk(p)
    THEN Corners3D(p[1].val[1], p[2].val[1], p[3].val[1],
                   p[1].val[2], p[2].val[2], p[3].val[2])
    ELSE FirstFailure(p)

\* LookupTable3D.cpp 125-131: the operands of the seven Lerp calls
Operands3D(c, ll, prc0, prc1, prc2) ==
    << <<c[1], c[2], prc2>>, <<c[3], c[4], prc2>>, <<c[5], c[6], prc2>>,
       <<c[7], c[8], prc2>>,
       <<ll[1], ll[2], prc1>>, <<ll[3], ll[4], prc1>>,
       <<Lerp(ll[1], ll[2], prc1), Lerp(ll[3], ll[4], prc1), prc0>> >>
OperandsOn3D(c, prc0, prc1, prc2) ==
    Operands3D(c, <<Lerp(c[1], c[2], prc2), Lerp(c[3], c[4], prc2),
                    Lerp(c[5], c[6], prc2), Lerp(c[7], c[8], prc2)>>, prc0, prc1, prc2)
OperandsAt3D(low0, low1, low2, prc0, prc1, prc2) ==
    OperandsOn3D(<<LookupByIndices(<<low0, low1, low2>>).val,
                   LookupByIndices(<<low0, low1, low2 + 1>>).val,
                   LookupByIndices(<<low0, low1 + 1, low2>>).val,
                   LookupByIndices(<<low0, low1 + 1, low2 + 1>>).val,
                   LookupByIndices(<<low0 + 1, low1, low2>>).val,
                   LookupByIndices(<<low0 + 1, low1, low2 + 1>>).val,
                   LookupByIndices(<<low0 + 1, low1 + 1, low2>>).val,
                   LookupByIndices(<<low0 + 1, low1 + 1, low2 + 1>>).val>>,
                 prc0, prc1, prc2)
\* the Lerp calls of a successful LookupTable3D::LookupByValues
LerpOperands3D(p0, p1, p2) ==
    OperandsAt3D(p0.val[1], p1.val[1], p2.val[1], p0.val[2], p1.val[2], p2.val[2])

LookupByValues3D(aDim1Value, aDim2Value, aDim3Value) ==
    IF ~_valid
    THEN Err(kErrInvalid)
    ELSE Unrolled3D(<<GetPositionInfo(0, aDim1Value), GetPositionInfo(1, aDim2Value),
                      GetPositionInfo(2, aDim3Value)>>)

LookupByValues3DVec(aValueInputs) ==
    IF Len(aValueInputs) # 3
    THEN Err(kErrArity)
    ELSE LookupByValues3D(aValueInputs[1], aValueInputs[2], aValueInputs[3])

\* the virtual LookupByValues(const std::vector<double>&) of an object of class k
LookupByValues(k, aValueInputs) ==
    CASE k = "2D" -> LookupByValues2DVec(aValueInputs)
      [] k = "3D" -> LookupByValues3DVec(aValueInputs)
      [] OTHER -> LookupByValuesND(aValueInputs)

(***************************************************************************)
(* The two reporting forms wrapped around a throwing Lookup* call          *)
(* (utils.h 33-57; the Query* methods of the three classes)                *)
(***************************************************************************)
\* try { return Result<T>(value); } catch (std::exception& e) { return e.what(); }
\* A failed Result holds _value = T(), i.e. zero.
AsResult(out, zero) ==
    IF out.ok
    THEN [ok |-> TRUE, val |-> out.val, err |-> ""]
    ELSE [ok |-> FALSE, val |-> zero, err |-> out.err]

\* bool form: the return value, and what *outValue and *outErrMsg were set to
\* (NoVal and "" where the call wrote nothing); a null out pointer returns false
AsBool(out, nullOut) ==
    IF nullOut
    THEN [ok |-> FALSE, val |-> NoVal, err |-> ""]
    ELSE IF out.ok
         THEN [ok |-> TRUE, val |-> out.val, err |-> ""]
         ELSE [ok |-> FALSE, val |-> NoVal, err |-> out.err]

\* implicit conversion double -> size_t: truncation toward zero when the
\* truncated value is representable, otherwise undefined (any size_t; for the
\* tables of this model every value above MaxAxisLen acts like MaxAxisLen + 1)
ToSizeT(v) ==
    IF v[1] >= 0
    THEN {v[1] \div v[2]}
    ELSE IF -v[1] < v[2]
         THEN {0}
         ELSE 0..(MaxAxisLen + 1)

(***************************************************************************)
(* Candidate data sets handed to the constructors and to PopulateData.     *)
(* A palette fixes, per axis position, whether the axis starts at -3 (so   *)
(* it holds negative values and zero) or at 1; the gaps grow 1, 2, 3, ...  *)
(***************************************************************************)
Palettes == {0, 1}
StartOf(p, i) == IF (p + i) % 2 = 1 THEN -3 ELSE 1

\* strictly increasing axis of n values: s, s+1, s+3, s+6, ...
Run(s, n) == [k \in 1..n |-> R(s + ((k - 1) * k) \div 2)]

\* dependent values 'k*k - 4': distinct, not linear in k, of both signs
DepOf(n) == [k \in 1..n |-> R(k * k - 4)]

RECURSIVE LenProduct(_, _)
LenProduct(lens, n) == IF n = 0 THEN 1 ELSE LenProduct(lens, n - 1) * lens[n]

\* well-formed grids: every axis non-empty and strictly increasing
Grids ==
    { [i \in 1..Len(lens) |-> Run(StartOf(p, i), lens[i])] :
        <<p, lens>> \in { pl \in Palettes
                            \X UNION { [1..D -> 1..MaxAxisLen] : D \in 0..MaxDims } :
                          LenProduct(pl[2], Len(pl[2])) <= MaxDepLen } }

AxisLens(indep) == [i \in 1..Len(indep) |-> Len(indep[i])]
Cells(indep) == LenProduct(AxisLens(indep), Len(indep))

\* axis a with element j made equal to its predecessor / swapped with it
WithDuplicate(a, j) == [a EXCEPT ![j] = a[j - 1]]
WithSwap(a, j) == [a EXCEPT ![j] = a[j - 1], ![j - 1] = a[j]]

\* the grid with one axis damaged or emptied
Damaged(g) ==
    UNION { { [g EXCEPT ![i] = WithDuplicate(g[i], j)],
              [g EXCEPT ![i] = WithSwap(g[i], j)] } :
            <<i, j>> \in { ij \in (1..Len(g)) \X (2..MaxAxisLen) : ij[2] <= Len(g[ij[1]]) } }
\* a grid of a single cell with one axis emptied: still D axes, no cell
Emptied(g) == IF Cells(g) = 1 THEN { [g EXCEPT ![i] = <<>>] : i \in 1..Len(g) } ELSE {}

\* candidates as (independent data set, dependent data)
Candidates ==
    UNION { { <<g, DepOf(Cells(g))>> }
            \cup { <<g, DepOf(Cells(g) + o)>> : o \in 1..MaxOffBy }
            \cup { <<g, DepOf(Cells(g) - o)>> : o \in 1..(IF Cells(g) < MaxOffBy THEN Cells(g) ELSE MaxOffBy) }
            \cup { <<d, DepOf(Cells(d))>> : d \in Damaged(g) }
            \cup { <<e, DepOf(0)>> : e \in Emptied(g) }
          : g \in Grids }

\* candidates in the combined form (independent arrays, then the dependent one),
\* and the data set holding nothing at all
FullCandidates == { Append(c[1], c[2]) : c \in Candidates } \cup { <<>> }

(***************************************************************************)
(* The caller: 'last' holds the latest call and what came back, until the  *)
(* caller lets go of it and makes the next call.                           *)
(***************************************************************************)
NoCall == [op |-> "none"]
Called(op, in, out) == [op |-> op, in |-> in, ok |-> out.ok, val |-> out.val, err |-> out.err]

Table == [indep |-> _indepData, dep |-> _depData, valid |-> _valid]
Holds(t) ==
    /\ _indepData = t.indep
    /\ _depData = t.dep
    /\ _valid = t.valid
Store(t) ==
    /\ _indepData' = t.indep
    /\ _depData' = t.dep
    /\ _valid' = t.valid

(***************************************************************************)
(* Construction: the base-class constructor runs PopulateData while the    *)
(* object is still a LookupTableND, so validation is LookupTableND's own.  *)
(***************************************************************************)
Init ==
    /\ kind \in Kinds
    /\ \/ /\ Holds(EmptyTable)
          /\ last = [op |-> "LookupTableND()"]
       \/ \E full \in FullCandidates :
             /\ Holds(Populated("ND", full))
             /\ last = [op |-> "LookupTableND(full)", in |-> full]
       \/ \E c \in Candidates :
             /\ Holds(Populated("ND", Append(c[1], c[2])))
             /\ last = [op |-> "LookupTableND(indep, dep)", in |-> c]

\* metadata (LookupTableND.cpp 269-276)
Valid == _valid
Dimensions == Len(_indepData)

\* the caller is done with the previous call's result
Release ==
    /\ last # NoCall
    /\ last' = NoCall
    /\ UNCHANGED <<kind, _indepData, _depData, _valid>>

ResetData ==
    /\ last = NoCall
    /\ Store(EmptyTable)
    /\ last' = [op |-> "ResetData", was |-> _valid]
    /\ UNCHANGED kind

\* what the caller knows: the table is valid and holds exactly this data set
Holding(aFullDataSet) ==
    /\ _valid
    /\ aFullDataSet = Append(_indepData, _depData)

\* PopulateData that fills an empty table only and clears a filled one
PopulateDataOnEmptyOnly(aFullDataSet) ==
    /\ last = NoCall
    /\ Store(IF _valid THEN EmptyTable ELSE Populated(kind, aFullDataSet))
    /\ last' = [op |-> "PopulateData(full)", in |-> aFullDataSet,
                ret |-> _valid', was |-> _valid, again |-> Holding(aFullDataSet)]
    /\ UNCHANGED kind

\* PopulateData without the else branch: refused data leaves the table alone
PopulateDataKeepingOld(aFullDataSet) ==
    /\ last = NoCall
    /\ Store(IF IsValidSourceData(kind, aFullDataSet)
             THEN Populated(kind, aFullDataSet)
             ELSE Table)
    /\ last' = [op |-> "PopulateData(full)", in |-> aFullDataSet,
                ret |-> _valid', was |-> _valid, again |-> Holding(aFullDataSet)]
    /\ UNCHANGED kind

\* PopulateData whose else branch clears the arrays but not the flag
PopulateDataKeepingFlag(aFullDataSet) ==
    /\ last = NoCall
    /\ Store(IF IsValidSourceData(kind, aFullDataSet)
             THEN Populated(kind, aFullDataSet)
             ELSE [EmptyTable EXCEPT !.valid = _valid])
    /\ last' = [op |-> "PopulateData(full)", in |-> aFullDataSet,
                ret |-> _valid', was |-> _valid, again |-> Holding(aFullDataSet)]
    /\ UNCHANGED kind

\* bool PopulateData(const TableDataSet& aFullDataSet)
PopulateData(aFullDataSet) ==
    /\ last = NoCall
    /\ Store(Populated(kind, aFullDataSet))
    /\ last' = [op |-> "PopulateData(full)", in |-> aFullDataSet,
                ret |-> _valid', was |-> _valid, again |-> Holding(aFullDataSet)]
    /\ UNCHANGED kind

\* bool PopulateData(const TableDataSet& aIndepDataSet, const TableData& aDepData)
PopulateDataSplit(aIndepDataSet, aDepData) ==
    /\ last = NoCall
    /\ Store(Populated(kind, Append(aIndepDataSet, aDepData)))
    /\ last' = [op |-> "PopulateData(indep, dep)", in |-> <<aIndepDataSet, aDepData>>,
                ret |-> _valid', was |-> _valid,
                again |-> Holding(Append(aIndepDataSet, aDepData))]
    /\ UNCHANGED kind

(***************************************************************************)
(* Arguments the caller passes to the lookups, drawn from the stored axes: *)
(* per axis every grid value, every midpoint of adjacent grid values, one  *)
(* value below the first and one above the last grid value; per axis every *)
(* index 0 .. length (the last one out of bounds).  Tuples of the wrong    *)
(* length take, per axis, the first grid value or the value above the last *)
(* (index 0 or the length).                                                *)
(***************************************************************************)
Half == <<1, 2>>
QueryVals(axis) ==
    IF axis = <<>>
    THEN {R(0)}
    ELSE { axis[j] : j \in 1..Len(axis) }
         \cup { RMul(Half, RAdd(axis[j - 1], axis[j])) : j \in 2..Len(axis) }
         \cup { RSub(axis[1], R(1)), RAdd(axis[Len(axis)], R(1)) }
QueryIdxs(axis) == 0..Len(axis)
EndVals(axis) ==
    IF axis = <<>> THEN {R(0)} ELSE { axis[1], RAdd(axis[Len(axis)], R(1)) }
EndIdxs(axis) == {0, Len(axis)}

RECURSIVE Tuples(_, _)
\* all tuples t of length n with t[i] \in sets[i]
Tuples(sets, n) ==
    IF n = 0
    THEN {<<>>}
    ELSE { Append(t, x) : t \in Tuples(sets, n - 1), x \in sets[n] }

\* one choice per axis for the first n positions; zero beyond the last axis
ValueTuples(n) ==
    Tuples([i \in 1..n |-> IF i > Len(_indepData) THEN {R(0)}
                           ELSE IF n = Len(_indepData) THEN QueryVals(_indepData[i])
                           ELSE EndVals(_indepData[i])], n)
IndexTuples(n) ==
    Tuples([i \in 1..n |-> IF i > Len(_indepData) THEN {0}
                           ELSE IF n = Len(_indepData) THEN QueryIdxs(_indepData[i])
                           ELSE EndIdxs(_indepData[i])], n)

\* tuples of the table's arity, one shorter and one longer
Arities ==
    { n \in 0..(MaxDims + 1) : n >= Len(_indepData) - 1 /\ n <= Len(_indepData) + 1 }
ValueInputs == UNION { ValueTuples(n) : n \in Arities }
IndexInputs == UNION { IndexTuples(n) : n \in Arities }

\* the bool forms are also called with null out pointers, on the tuple of
\* first grid values and on the tuple of zero indices
FrontTuple(n) == [i \in 1..n |->
                    IF i > Len(_indepData) THEN R(0)
                    ELSE IF _indepData[i] = <<>> THEN R(0) ELSE _indepData[i][1]]
ZeroTuple(n) == [i \in 1..n |-> 0]
NullChoices(a, probe) == IF a = probe THEN BOOLEAN ELSE {FALSE}

\* a call that resets the table when it fails
CallResettingOnFailure(op, in, out) ==
    /\ last = NoCall
    /\ last' = Called(op, in, out)
    /\ IF out.ok
       THEN UNCHANGED <<_indepData, _depData, _valid>>
       ELSE Store(EmptyTable)
    /\ UNCHANGED kind

\* a call that leaves the table alone
Call(op, in, out) ==
    /\ last = NoCall
    /\ last' = Called(op, in, out)
    /\ UNCHANGED <<kind, _indepData, _depData, _valid>>

(***************************************************************************)
(* LookupTableND: validation query, lookups, metadata                      *)
(***************************************************************************)
\* callers pre-check data before committing to population: the model makes
\* the validation query on tables that hold no data
CallIsValidSourceData(aFullDataSet) ==
    /\ ~_valid
    /\ Call("IsValidSourceData(full)", aFullDataSet, Ok(IsValidSourceData(kind, aFullDataSet)))

CallIsValidSourceDataSplit(aIndepDataSet, aDepData) ==
    /\ ~_valid
    /\ Call("IsValidSourceData(indep, dep)", <<aIndepDataSet, aDepData>>,
            Ok(IsValidSourceDataSplit(kind, aIndepDataSet, aDepData)))

CallLookupIndexAt(aInputs) ==
    Call("LookupIndexAt", aInputs, LookupIndexAt(aInputs))
QueryIndexAtBool(aInputs, nullOut) ==
    Call("QueryIndexAt/bool", <<aInputs, nullOut>>, AsBool(LookupIndexAt(aInputs), nullOut))
QueryIndexAtResult(aInputs) ==
    Call("QueryIndexAt/Result", aInputs, AsResult(LookupIndexAt(aInputs), 0))

CallLookupByIndices(aIndexInputs) ==
    Call("LookupByIndices", aIndexInputs, LookupByIndices(aIndexInputs))
QueryByIndicesBool(aIndexInputs, nullOut) ==
    Call("QueryByIndices/bool", <<aIndexInputs, nullOut>>,
         AsBool(LookupByIndices(aIndexInputs), nullOut))
QueryByIndicesResult(aIndexInputs) ==
    Call("QueryByIndices/Result", aIndexInputs, AsResult(LookupByIndices(aIndexInputs), R(0)))

\* the vector forms of the by-values lookups are virtual: class 'kind' decides
CallLookupByValues(aValueInputs) ==
    Call("LookupByValues", aValueInputs, LookupByValues(kind, aValueInputs))
QueryByValuesBool(aValueInputs, nullOut) ==
    Call("QueryByValues/bool", <<aValueInputs, nullOut>>,
         AsBool(LookupByValues(kind, aValueInputs), nullOut))
QueryByValuesResult(aValueInputs) ==
    Call("QueryByValues/Result", aValueInputs,
         AsResult(LookupByValues(kind, aValueInputs), R(0)))

CallValid == Call("Valid", <<>>, Ok(_valid))
CallDimensions == Call("Dimensions", <<>>, Ok(Len(_indepData)))
CallDepDataSize == Call("DepDataSize", <<>>, Ok(Len(_depData)))
CallIndepDataSize(aDimension) ==
    Call("IndepDataSize", aDimension,
         IF aDimension >= Len(_indepData)
         THEN Err(kErrDim)
         ELSE Ok(Len(_indepData[aDimension + 1])))

(***************************************************************************)
(* LookupTable2D / LookupTable3D: the scalar-argument overloads.  In the   *)
(* model one action serves both classes: the arguments are a pair for a    *)
(* LookupTable2D and a triple for a LookupTable3D.                         *)
(***************************************************************************)
ScalarArity == IF kind = "2D" THEN 2 ELSE 3

\* LookupByValues(const double&, const double& [, const double&])
LookupByValuesScalar(k, a) ==
    IF k = "2D" THEN LookupByValues2D(a[1], a[2]) ELSE LookupByValues3D(a[1], a[2], a[3])

CallLookupIndexAtScalar(a) ==
    /\ kind # "ND"
    /\ Call("LookupIndexAt/scalar", a, LookupIndexAt(a))
QueryIndexAtScalarBool(a, nullOut) ==
    /\ kind # "ND"
    /\ Call("QueryIndexAt/scalar/bool", <<a, nullOut>>, AsBool(LookupIndexAt(a), nullOut))
QueryIndexAtScalarResult(a) ==
    /\ kind # "ND"
    /\ Call("QueryIndexAt/scalar/Result", a, AsResult(LookupIndexAt(a), 0))

CallLookupByIndicesScalar(a) ==
    /\ kind # "ND"
    /\ Call("LookupByIndices/scalar", a, LookupByIndices(a))
QueryByIndicesScalarBool(a, nullOut) ==
    /\ kind # "ND"
    /\ Call("QueryByIndices/scalar/bool", <<a, nullOut>>, AsBool(LookupByIndices(a), nullOut))
QueryByIndicesScalarResult(a) ==
    /\ kind # "ND"
    /\ Call("QueryByIndices/scalar/Result", a, AsResult(LookupByIndices(a), R(0)))

CallLookupByValuesScalar(a) ==
    /\ kind # "ND"
    /\ Call("LookupByValues/scalar", a, LookupByValuesScalar(kind, a))
\* LookupTable2D.cpp 128, LookupTable3D.cpp 148: the body calls
\* LookupByIndices(aDim1Value, aDim2Value, ...), converting each double to size_t
QueryByValuesScalarBool(a, nullOut) ==
    /\ kind # "ND"
    /\ \E idx \in Tuples([i \in 1..Len(a) |-> ToSizeT(a[i])], Len(a)) :
          Call("QueryByValues/scalar/bool", <<a, nullOut>>,
               AsBool(IF nullOut THEN Err("") ELSE LookupByIndices(idx), nullOut))
QueryByValuesScalarResult(a) ==
    /\ kind # "ND"
    /\ Call("QueryByValues/scalar/Result", a, AsResult(LookupByValuesScalar(kind, a), R(0)))

\* every call is made once the caller is done with the previous one
Idle == last = NoCall

Next ==
    \/ Release
    \/ Idle /\ (ResetData)
    \/ Idle /\ (\E full \in FullCandidates : PopulateData(full))
    \/ Idle /\ (\E c \in Candidates : PopulateDataSplit(c[1], c[2]))
    \/ Idle /\ (\E full \in FullCandidates : CallIsValidSourceData(full))
    \/ Idle /\ (\E c \in Candidates : CallIsValidSourceDataSplit(c[1], c[2]))
    \/ Idle /\ (\E a \in IndexInputs : CallLookupIndexAt(a))
    \/ Idle /\ (\E a \in IndexInputs : \E nullOut \in NullChoices(a, ZeroTuple(Len(_indepData))) : QueryIndexAtBool(a, nullOut))
    \/ Idle /\ (\E a \in IndexInputs : QueryIndexAtResult(a))
    \/ Idle /\ (\E a \in IndexInputs : CallLookupByIndices(a))
    \/ Idle /\ (\E a \in IndexInputs : \E nullOut \in NullChoices(a, ZeroTuple(Len(_indepData))) : QueryByIndicesBool(a, nullOut))
    \/ Idle /\ (\E a \in IndexInputs : QueryByIndicesResult(a))
    \/ Idle /\ (\E a \in ValueInputs : CallLookupByValues(a))
    \/ Idle /\ (\E a \in ValueInputs : \E nullOut \in NullChoices(a, FrontTuple(Len(_indepData))) : QueryByValuesBool(a, nullOut))
    \/ Idle /\ (\E a \in ValueInputs : QueryByValuesResult(a))
    \/ Idle /\ (CallValid)
    \/ Idle /\ (CallDimensions)
    \/ Idle /\ (CallDepDataSize)
    \/ Idle /\ (\E d \in 0..MaxDims : CallIndepDataSize(d))
    \/ Idle /\ (\E a \in IndexTuples(ScalarArity) : CallLookupIndexAtScalar(a))
    \/ Idle /\ (\E a \in IndexTuples(ScalarArity) : \E nullOut \in NullChoices(a, ZeroTuple(ScalarArity)) : QueryIndexAtScalarBool(a, nullOut))
    \/ Idle /\ (\E a \in IndexTuples(ScalarArity) : QueryIndexAtScalarResult(a))
    \/ Idle /\ (\E a \in IndexTuples(ScalarArity) : CallLookupByIndicesScalar(a))
    \/ Idle /\ (\E a \in IndexTuples(ScalarArity) : \E nullOut \in NullChoices(a, ZeroTuple(ScalarArity)) : QueryByIndicesScalarBool(a, nullOut))
    \/ Idle /\ (\E a \in IndexTuples(ScalarArity) : QueryByIndicesScalarResult(a))
    \/ Idle /\ (\E a \in ValueTuples(ScalarArity) : CallLookupByValuesScalar(a))
    \/ Idle /\ (\E a \in ValueTuples(ScalarArity) : \E nullOut \in NullChoices(a, FrontTuple(ScalarArity)) : QueryByValuesScalarBool(a, nullOut))
    \/ Idle /\ (\E a \in ValueTuples(ScalarArity) : QueryByValuesScalarResult(a))

Spec == Init /\ [][Next]_vars

(***************************************************************************)
(* GetApproxPos step by step (LookupTableND.cpp 318-357): the binary       *)
(* search as a loop, one step per iteration.  While the call runs, 'last'  *)
(* holds the call with its locals l, r, m and where it stands: in the      *)
(* while loop ("while"), past it ("exit"), returned or ended by a throw.    *)
(***************************************************************************)
Searching(aDimension, aValue, l, r, m) ==
    [op |-> "GetApproxPos", in |-> <<aDimension, aValue>>,
     l |-> l, r |-> r, m |-> m, at |-> "while"]
Thrown(aDimension, aValue, what) ==
    [op |-> "GetApproxPos", in |-> <<aDimension, aValue>>,
     at |-> "thrown", out |-> Err(what)]

\* the axis the running call searches
SearchData == _indepData[last.in[1] + 1]

\* lines 323-338: the checks, then size_t l = 0, r = data.size(), m = (l + r) / 2
SearchEnter(aDimension, aValue) ==
    /\ last = NoCall
    /\ last' = IF ~_valid
               THEN Thrown(aDimension, aValue, kErrInvalid)
               ELSE IF aDimension >= Len(_indepData)
               THEN Thrown(aDimension, aValue, kErrDim)
               ELSE IF _indepData[aDimension + 1] = <<>>
               THEN Thrown(aDimension, aValue, kErrEmpty)
               ELSE IF \/ RLt(aValue, _indepData[aDimension + 1][1])
                       \/ RLt(_indepData[aDimension + 1][Len(_indepData[aDimension + 1])],
                              aValue)
               THEN Thrown(aDimension, aValue, kErrDomain)
               ELSE Searching(aDimension, aValue, 0, Len(_indepData[aDimension + 1]),
                              Len(_indepData[aDimension + 1]) \div 2)
    /\ UNCHANGED <<kind, _indepData, _depData, _valid>>

\* the loop body without its last statement: m is left as it was
SearchIterateKeepingMid ==
    /\ last.op = "GetApproxPos"
    /\ last.at = "while"
    /\ last.l < last.m /\ last.m < last.r
    /\ last' = IF IsApproxEqual(last.in[2], SearchData[last.m + 1])
               THEN [last EXCEPT !.l = last.m, !.r = last.m, !.at = "exit"]
               ELSE IF RLt(last.in[2], SearchData[last.m + 1])
               THEN [last EXCEPT !.r = last.m]
               ELSE [last EXCEPT !.l = last.m]
    /\ UNCHANGED <<kind, _indepData, _depData, _valid>>

\* lines 339-350: one iteration of while (l < m && m < r)
SearchIterate ==
    /\ last.op = "GetApproxPos"
    /\ last.at = "while"
    /\ last.l < last.m /\ last.m < last.r
    /\ last' = IF IsApproxEqual(last.in[2], SearchData[last.m + 1])
               THEN [last EXCEPT !.l = last.m, !.r = last.m, !.at = "exit"]
               ELSE IF RLt(last.in[2], SearchData[last.m + 1])
               THEN [last EXCEPT !.r = last.m, !.m = (last.l + last.m) \div 2]
               ELSE [last EXCEPT !.l = last.m, !.m = (last.m + last.r) \div 2]
    /\ UNCHANGED <<kind, _indepData, _depData, _valid>>

\* the loop condition fails: on to lines 351-356 with l and r as they stand
SearchLeave ==
    /\ last.op = "GetApproxPos"
    /\ last.at = "while"
    /\ ~(last.l < last.m /\ last.m < last.r)
    /\ last' = [last EXCEPT !.at = "exit"]
    /\ UNCHANGED <<kind, _indepData, _depData, _valid>>

\* lines 351-356: *outApproxPosition, or the throw of data.at
SearchReturn ==
    /\ last.op = "GetApproxPos"
    /\ last.at = "exit"
    /\ last' = [op |-> "GetApproxPos", in |-> last.in, l |-> last.l, r |-> last.r,
                at |-> "returned",
                out |-> ApproxPosAt(SearchData, last.in[2], last.l, last.r)]
    /\ UNCHANGED <<kind, _indepData, _depData, _valid>>

\* the values GetApproxPos is entered with on dimension d
SearchVals(d) == IF d < Len(_indepData) THEN QueryVals(_indepData[d + 1]) ELSE {R(0)}

\* the caller has the outcome of the call, or of the construction
Returned == last.op = "GetApproxPos" => last.at \in {"returned", "thrown"}

SearchNext ==
    \/ Returned /\ Release
    \/ \E d \in 0..MaxDims : \E v \in SearchVals(d) : SearchEnter(d, v)
    \/ SearchIterate
    \/ SearchLeave
    \/ SearchReturn

\* GetApproxPos is not virtual and reads the axes only: tables of the base
\* class, as its one-argument constructor leaves them
SearchInit ==
    /\ Init
    /\ kind = "ND"
    /\ last.op = "LookupTableND(full)"

\* the loop is sequential code: once entered, its next step is taken
SearchSpec ==
    /\ SearchInit
    /\ [][SearchNext]_vars
    /\ WF_vars(SearchIterate)
    /\ WF_vars(SearchLeave)

(***************************************************************************)
(* Vocabulary of the properties                                            *)
(***************************************************************************)
StrictlyIncreasing(axis) == \A j \in 1..(Len(axis) - 1) : RLt(axis[j], axis[j + 1])

\* what the data model asks of a data set: D >= 2 axes, each strictly
\* increasing, and one dependent value per cell
WellFormed(indep, dep) ==
    /\ Len(indep) >= 2
    /\ \A i \in 1..Len(indep) : StrictlyIncreasing(indep[i])
    /\ Len(dep) = Cells(indep)

\* the numbers of axes a class takes
AcceptsDims(k, D) ==
    CASE k = "2D" -> D = 2
      [] k = "3D" -> D = 3
      [] OTHER -> D >= 2

IndepOf(full) == IF full = <<>> THEN <<>> ELSE SubSeq(full, 1, Len(full) - 1)
DepOfFull(full) == IF full = <<>> THEN <<>> ELSE full[Len(full)]

PopulateOps == {"PopulateData(full)", "PopulateData(indep, dep)"}
ValidateOps == {"IsValidSourceData(full)", "IsValidSourceData(indep, dep)"}
CtorOps == {"LookupTableND(full)", "LookupTableND(indep, dep)"}
FullOps == {"PopulateData(full)", "IsValidSourceData(full)", "LookupTableND(full)"}

\* the data the last population, validation or construction was given
GivenIndep == IF last.op \in FullOps THEN IndepOf(last.in) ELSE last.in[1]
GivenDep == IF last.op \in FullOps THEN DepOfFull(last.in) ELSE last.in[2]

(***************************************************************************)
(* C1: PopulateData, in both forms, given D >= 2 strictly increasing axes  *)
(* and a dependent array of exactly the product of the axis lengths,       *)
(* returns true and leaves the table valid and holding exactly that data   *)
(* (for LookupTable2D / LookupTable3D: when D is the class's 2 / 3).       *)
(***************************************************************************)
C1_PopulateSucceeds ==
    (/\ last.op \in PopulateOps
     /\ WellFormed(GivenIndep, GivenDep)
     /\ AcceptsDims(kind, Len(GivenIndep)))
    => /\ last.ret = TRUE
       /\ _valid = TRUE
       /\ _indepData = GivenIndep
       /\ _depData = GivenDep
       /\ Len(_indepData) = Len(GivenIndep)
       /\ Len(_depData) = Cells(GivenIndep)

C1_Witness ==
    /\ last.op = "PopulateData(indep, dep)"
    /\ kind = "ND"
    /\ Len(last.in[1]) = 3
    /\ Len(last.in[2]) = MaxDepLen
    /\ last.ret = TRUE
    /\ _valid

(***************************************************************************)
(* C2: PopulateData given data that fails validation (too few axes, an     *)
(* axis that is not strictly increasing, a dependent array of the wrong    *)
(* length) returns false and leaves the table empty and invalid, whatever  *)
(* it held before.                                                         *)
(***************************************************************************)
C2_PopulateFailureClears ==
    (/\ last.op \in PopulateOps
     /\ ~WellFormed(GivenIndep, GivenDep))
    => /\ last.ret = FALSE
       /\ _valid = FALSE
       /\ _indepData = <<>>
       /\ _depData = <<>>

C2_Witness ==
    /\ last.op = "PopulateData(full)"
    /\ last.was = TRUE
    /\ Len(GivenIndep) >= 2
    /\ Len(GivenDep) = Cells(GivenIndep) + 1
    /\ last.ret = FALSE
    /\ _indepData = <<>>

(***************************************************************************)
(* C3: in every reachable state a valid table has D >= 2 strictly          *)
(* increasing axes and one value per cell, and an invalid table holds no   *)
(* axes and no values.                                                     *)
(***************************************************************************)
C3_TableInvariant ==
    /\ _valid => WellFormed(_indepData, _depData)
    /\ ~_valid => _indepData = <<>> /\ _depData = <<>>

C3_Witness ==
    /\ last.op = "PopulateData(full)"
    /\ last.was = TRUE
    /\ _valid
    /\ Len(_indepData) = 3
    /\ \E i \in 1..3 : Len(_indepData[i]) = MaxAxisLen

(***************************************************************************)
(* C4: IsValidSourceData returns true exactly when the data has D >= 2     *)
(* axes (the class's 2 / 3 for the overlays), every axis is strictly       *)
(* increasing and the dependent array has one value per cell.              *)
(***************************************************************************)
C4_ValidIffWellFormed ==
    last.op \in ValidateOps
    => (last.val = TRUE <=> (/\ WellFormed(GivenIndep, GivenDep)
                             /\ AcceptsDims(kind, Len(GivenIndep))))

\* an equal adjacent pair is the only flaw of the data, and it is refused
C4_Witness ==
    /\ last.op = "IsValidSourceData(full)"
    /\ kind = "ND"
    /\ last.val = FALSE
    /\ Len(GivenIndep) >= 2
    /\ Len(GivenDep) = Cells(GivenIndep)
    /\ \E i \in 1..Len(GivenIndep) : \E j \in 2..Len(GivenIndep[i]) :
          /\ GivenIndep[i][j] = GivenIndep[i][j - 1]
          /\ \A i2 \in 1..Len(GivenIndep) : \A j2 \in 2..Len(GivenIndep[i2]) :
                <<i2, j2>> # <<i, j>> => RLt(GivenIndep[i2][j2 - 1], GivenIndep[i2][j2])

(***************************************************************************)
(* Vocabulary of the lookups' properties                                   *)
(***************************************************************************)
IndexAtOps == {"LookupIndexAt", "QueryIndexAt/bool", "QueryIndexAt/Result",
               "LookupIndexAt/scalar", "QueryIndexAt/scalar/bool",
               "QueryIndexAt/scalar/Result"}
ByIndicesOps == {"LookupByIndices", "QueryByIndices/bool", "QueryByIndices/Result",
                 "LookupByIndices/scalar", "QueryByIndices/scalar/bool",
                 "QueryByIndices/scalar/Result"}
ByValuesOps == {"LookupByValues", "QueryByValues/bool", "QueryByValues/Result",
                "LookupByValues/scalar", "QueryByValues/scalar/bool",
                "QueryByValues/scalar/Result"}
BoolOps == {"QueryIndexAt/bool", "QueryByIndices/bool", "QueryByValues/bool",
            "QueryIndexAt/scalar/bool", "QueryByIndices/scalar/bool",
            "QueryByValues/scalar/bool"}
LookupOps == IndexAtOps \cup ByIndicesOps \cup ByValuesOps

\* the tuple the last lookup was given, and whether it was given null outputs
GivenTuple == IF last.op \in BoolOps THEN last.in[1] ELSE last.in
GivenNull == IF last.op \in BoolOps THEN last.in[2] ELSE FALSE

RECURSIVE Stride(_)
\* the product of the lengths of the axes before axis i (1-based)
Stride(i) == IF i = 1 THEN 1 ELSE Stride(i - 1) * Len(_indepData[i - 1])

RECURSIVE OffsetUpTo(_, _)
OffsetUpTo(idx, n) == IF n = 0 THEN 0 ELSE OffsetUpTo(idx, n - 1) + idx[n] * Stride(n)
\* sum over i of idx[i] times the product of the lengths of the axes before i
Offset(idx) == OffsetUpTo(idx, Len(idx))

InBounds(idx) ==
    /\ Len(idx) = Len(_indepData)
    /\ \A i \in 1..Len(idx) : idx[i] < Len(_indepData[i])

(***************************************************************************)
(* C5: on a valid table, for every index tuple of length D with every      *)
(* index below its axis length, the offset sum_i idx[i] * prod_{j<i} len_j *)
(* is below the number of values, the index lookup returns that offset and *)
(* the lookup by indices returns the value stored there; no lookup ever    *)
(* fails with "Calculated index out of bounds.".                           *)
(***************************************************************************)
C5_LookupByIndices ==
    /\ (/\ last.op \in IndexAtOps \cup ByIndicesOps
        /\ _valid
        /\ ~GivenNull
        /\ InBounds(GivenTuple))
       => /\ Offset(GivenTuple) < Len(_depData)
          /\ last.ok = TRUE
          /\ last.op \in IndexAtOps => last.val = Offset(GivenTuple)
          /\ last.op \in ByIndicesOps => last.val = _depData[Offset(GivenTuple) + 1]
    /\ last.op \in LookupOps => last.err # kErrCalc

C5_Witness ==
    /\ last.op = "QueryByIndices/Result"
    /\ _valid
    /\ Len(_indepData) = 3
    /\ InBounds(last.in)
    /\ last.in[2] >= 1
    /\ last.in[3] >= 1
    /\ last.ok = TRUE
    /\ last.val = _depData[Offset(last.in) + 1]

\* the table has a number of axes its class takes (a LookupTable2D or
\* LookupTable3D built from data of another arity is C16's matter)
OwnArity == AcceptsDims(kind, Len(_indepData))

\* the by-values forms whose body calls LookupByValues
ThroughLookupByValues == ByValuesOps \ {"QueryByValues/scalar/bool"}

\* every coordinate of t is a grid value of its axis
OnGrid(t) ==
    /\ Len(t) = Len(_indepData)
    /\ \A i \in 1..Len(t) : \E k \in 1..Len(_indepData[i]) : _indepData[i][k] = t[i]
\* the index tuple (0-based) of the grid point t
GridIdx(t) ==
    [i \in 1..Len(t) |->
        (CHOOSE k \in 1..Len(_indepData[i]) : _indepData[i][k] = t[i]) - 1]

\* every coordinate of t is the first or the last element of its axis
OnEnds(t) ==
    /\ Len(t) = Len(_indepData)
    /\ \A i \in 1..Len(t) :
          /\ _indepData[i] # <<>>
          /\ t[i] \in {_indepData[i][1], _indepData[i][Len(_indepData[i])]}

\* some coordinate of t lies strictly outside its axis
OutOfDomain(t) ==
    \E i \in 1..Len(t) :
        /\ i <= Len(_indepData)
        /\ _indepData[i] # <<>>
        /\ \/ RLt(t[i], _indepData[i][1])
           \/ RLt(_indepData[i][Len(_indepData[i])], t[i])

(***************************************************************************)
(* C6: on every valid table a lookup by values at a grid point (axes of    *)
(* length 1 and negative grid values included) succeeds and returns the    *)
(* value stored at that grid point, the one lookup by indices returns.     *)
(* Stated here for the forms that call LookupByValues, on tables of the    *)
(* class's own arity.                                                      *)
(***************************************************************************)
C6_GridPointExact ==
    (/\ last.op \in ThroughLookupByValues
     /\ _valid
     /\ OwnArity
     /\ ~GivenNull
     /\ OnGrid(GivenTuple))
    => /\ last.ok = TRUE
       /\ last.val = _depData[Offset(GridIdx(GivenTuple)) + 1]

(***************************************************************************)
(* C7: on every valid table a lookup by values whose every coordinate is   *)
(* the first or the last element of its axis succeeds, whatever the sign   *)
(* of the axis values and whatever the axis length.  Stated for the forms  *)
(* that call LookupByValues, on tables of the class's own arity.           *)
(***************************************************************************)
C7_EndsSucceed ==
    (/\ last.op \in ThroughLookupByValues
     /\ _valid
     /\ OwnArity
     /\ ~GivenNull
     /\ OnEnds(GivenTuple))
    => last.ok = TRUE

(***************************************************************************)
(* C8: on a valid table a lookup by values with a coordinate strictly      *)
(* below the first or strictly above the last element of its axis fails    *)
(* with an error and returns no value.                                     *)
(***************************************************************************)
C8_OutOfDomainFails ==
    (/\ last.op \in ByValuesOps
     /\ _valid
     /\ OwnArity
     /\ ~GivenNull
     /\ OutOfDomain(GivenTuple))
    => /\ last.ok = FALSE
       /\ last.err # ""

(***************************************************************************)
(* C9: for index-at, lookup by indices and lookup by values, vector and    *)
(* scalar overloads, the bool form given non-null outputs returns true     *)
(* exactly when the Result form is valid, with the same value on success.  *)
(***************************************************************************)
AgreesWith(result) ==
    /\ last.ok = result.ok
    /\ result.ok => last.val = result.val

C9_FormsAgree ==
    (last.op \in BoolOps /\ ~GivenNull)
    => CASE last.op \in {"QueryIndexAt/bool", "QueryIndexAt/scalar/bool"} ->
                AgreesWith(AsResult(LookupIndexAt(GivenTuple), 0))
         [] last.op \in {"QueryByIndices/bool", "QueryByIndices/scalar/bool"} ->
                AgreesWith(AsResult(LookupByIndices(GivenTuple), R(0)))
         [] last.op = "QueryByValues/bool" ->
                AgreesWith(AsResult(LookupByValues(kind, GivenTuple), R(0)))
         [] OTHER ->
                AgreesWith(AsResult(LookupByValuesScalar(kind, GivenTuple), R(0)))

(***************************************************************************)
(* C10: on a valid table with D axes every lookup (index-at, by indices,   *)
(* by values) given a tuple of a length other than D, shorter or longer,   *)
(* fails with an error and returns no value.                               *)
(***************************************************************************)
C10_WrongLengthFails ==
    (/\ last.op \in LookupOps
     /\ _valid
     /\ ~GivenNull
     /\ Len(GivenTuple) # Len(_indepData))
    => /\ last.ok = FALSE
       /\ last.err # ""

\* some index of idx, at the position of an axis, is not below that axis's length
IndexOutOfBounds(idx) ==
    \E i \in 1..Len(idx) :
        /\ i <= Len(_indepData)
        /\ idx[i] >= Len(_indepData[i])

(***************************************************************************)
(* C11: on a valid table index-at and lookup by indices, in every form,    *)
(* fail with an error and return no value whenever some index is not       *)
(* below the length of its axis.                                           *)
(***************************************************************************)
C11_IndexOutOfBoundsFails ==
    (/\ last.op \in IndexAtOps \cup ByIndicesOps
     /\ _valid
     /\ ~GivenNull
     /\ IndexOutOfBounds(GivenTuple))
    => /\ last.ok = FALSE
       /\ last.err # ""
       /\ last.op \in BoolOps => last.val = NoVal

\* only the last index is out of bounds, by one
C11_Witness ==
    /\ last.op = "QueryByIndices/bool"
    /\ _valid
    /\ ~GivenNull
    /\ Len(GivenTuple) = Len(_indepData)
    /\ Len(GivenTuple) = 3
    /\ GivenTuple[3] = Len(_indepData[3])
    /\ \A i \in 1..2 : GivenTuple[i] < Len(_indepData[i])
    /\ last.ok = FALSE
    /\ last.err = kErrInput

(***************************************************************************)
(* C12: while the table is invalid every query (index-at, by indices, by   *)
(* values, bool form and Result form, vector and scalar overloads) fails   *)
(* with an error: the invalid-table error, or the arity error that the     *)
(* LookupTable2D / LookupTable3D vector overloads raise before they reach  *)
(* the table.                                                              *)
(***************************************************************************)
C12_InvalidTableFails ==
    (last.op \in LookupOps /\ ~_valid)
    => /\ last.ok = FALSE
       /\ ~GivenNull => last.err \in {kErrInvalid, kErrArity}

C12_Witness ==
    /\ last.op = "QueryByValues/Result"
    /\ ~_valid
    /\ Len(last.in) = 1
    /\ last.ok = FALSE
    /\ last.err = kErrInvalid

\* the Lerp calls of the unrolled lookup of class 'kind' on the tuple t
LerpOperandsUnrolled(t) ==
    IF kind = "2D"
    THEN LerpOperands2D(GetPositionInfo(0, t[1]), GetPositionInfo(1, t[2]))
    ELSE LerpOperands3D(GetPositionInfo(0, t[1]), GetPositionInfo(1, t[2]),
                        GetPositionInfo(2, t[3]))

\* the forms of a LookupTable2D / LookupTable3D that run the unrolled
\* LookupByValues
UnrolledOps == {"LookupByValues/scalar", "QueryByValues/scalar/Result",
                "LookupByValues", "QueryByValues/bool", "QueryByValues/Result"}

(***************************************************************************)
(* C13: on a valid 2-axis (3-axis) table, for every coordinate pair        *)
(* (triple), the unrolled LookupTable2D (LookupTable3D) lookup by values   *)
(* and the generic LookupTableND lookup by values on the same data both    *)
(* fail or both succeed; on success they make the same Lerp calls on the   *)
(* same operands in the same order and return the same value.              *)
(***************************************************************************)
C13_UnrolledIsGeneric ==
    (/\ last.op \in UnrolledOps
     /\ kind # "ND"
     /\ _valid
     /\ OwnArity
     /\ ~GivenNull
     /\ Len(GivenTuple) = Len(_indepData))
    => /\ last.ok = LookupByValuesND(GivenTuple).ok
       /\ last.ok => /\ last.val = LookupByValuesND(GivenTuple).val
                     /\ LerpOperandsUnrolled(GivenTuple) = LerpOperandsND(GivenTuple)

\* a lookup strictly inside a cell of a 3-axis table
C13_Witness ==
    /\ last.op = "LookupByValues/scalar"
    /\ kind = "3D"
    /\ _valid
    /\ Len(_indepData) = 3
    /\ \A i \in 1..3 : /\ Len(_indepData[i]) >= 2
                       /\ RLt(_indepData[i][1], last.in[i])
                       /\ RLt(last.in[i], _indepData[i][2])
    /\ last.ok = TRUE
    /\ last.val = LookupByValuesND(last.in).val
    /\ Len(LerpOperandsND(last.in)) = 7

\* every coordinate of t lies within its axis
InDomain(t) ==
    /\ Len(t) = Len(_indepData)
    /\ \A i \in 1..Len(t) :
          /\ _indepData[i] # <<>>
          /\ RLe(_indepData[i][1], t[i])
          /\ RLe(t[i], _indepData[i][Len(_indepData[i])])

\* out is the blend of the outcomes ra and rb at fraction (v - a) / (b - a)
LinearBetween(out, ra, rb, a, b, v) ==
    /\ ra.ok
    /\ rb.ok
    /\ out.ok
    /\ out.val = RAdd(ra.val, RMul(RDiv(RSub(v, a), RSub(b, a)), RSub(rb.val, ra.val)))

\* along axis i, between its grid values j and j + 1, the outcome 'out' of the
\* lookup at t is linear in t[i] between the lookups at the two grid values
LinearOnCell(out, t, i, j) ==
    LinearBetween(out,
                  LookupByValues(kind, [t EXCEPT ![i] = _indepData[i][j]]),
                  LookupByValues(kind, [t EXCEPT ![i] = _indepData[i][j + 1]]),
                  _indepData[i][j], _indepData[i][j + 1], t[i])

(***************************************************************************)
(* C14: on a valid table, with the other coordinates held fixed, for a     *)
(* coordinate v between adjacent grid values a < b of one axis the lookup  *)
(* by values equals R(a) + ((v - a) / (b - a)) * (R(b) - R(a)), R(a) and   *)
(* R(b) being the lookups at the two grid values.  Stated for the lookups  *)
(* at v that succeed, through the forms that call LookupByValues.          *)
(***************************************************************************)
C14_LinearAlongAxis ==
    (/\ last.op \in ThroughLookupByValues
     /\ _valid
     /\ OwnArity
     /\ ~GivenNull
     /\ InDomain(GivenTuple)
     /\ last.ok = TRUE)
    => \A i \in 1..Len(GivenTuple) : \A j \in 1..(Len(_indepData[i]) - 1) :
          (RLe(_indepData[i][j], GivenTuple[i]) /\ RLe(GivenTuple[i], _indepData[i][j + 1]))
          => LinearOnCell(last, GivenTuple, i, j)

(***************************************************************************)
(* C15: populating a table that is valid and holds a data set valid for    *)
(* its class (the state a first population with it leaves) with that same  *)
(* data set again, in either form, succeeds and leaves the axes, the       *)
(* values and the validity as they were, so every later query, whose       *)
(* outcome depends on those alone, is answered as after one population.    *)
(***************************************************************************)
C15_RepopulateIdempotent ==
    [][(/\ last'.op \in PopulateOps
        /\ _valid
        /\ WellFormed(_indepData, _depData)
        /\ AcceptsDims(kind, Len(_indepData))
        /\ Append(GivenIndep', GivenDep') = Append(_indepData, _depData))
       => /\ last'.ret = TRUE
          /\ _valid' = _valid
          /\ _indepData' = _indepData
          /\ _depData' = _depData
          /\ kind' = kind]_vars

C15_Witness ==
    /\ last.op = "PopulateData(indep, dep)"
    /\ last.again = TRUE
    /\ last.ret = TRUE
    /\ Len(last.in[1]) = 3
    /\ AcceptsDims(kind, 3)
    /\ _valid
    /\ _indepData = last.in[1]
    /\ _depData = last.in[2]

(***************************************************************************)
(* C16: a LookupTable2D is restricted to exactly 2 dimensions: however it  *)
(* was created or populated (inherited data-taking constructors,           *)
(* PopulateData, ResetData), Valid() implies Dimensions() = 2, and data    *)
(* given with another number of independent arrays leaves it invalid.      *)
(* The inherited constructors run in LookupTableND's constructor, where    *)
(* the virtual IsValidSourceData resolves to LookupTableND's version, so   *)
(* a LookupTable2D built from three axes is valid.                         *)
(***************************************************************************)
C16_TwoDimensionsOnly ==
    kind = "2D"
    => /\ Valid => Dimensions = 2
       /\ (last.op \in PopulateOps \cup CtorOps /\ Len(GivenIndep) # 2) => ~Valid

(***************************************************************************)
(* C17: on a valid table, a lookup by values whose every value lies within *)
(* its axis ([front, back]) resolves a position on every axis, with a low  *)
(* index whose successor is still on the axis, and so does not fail: no    *)
(* corner lies out of bounds.  GetApproxPos reads data.at(r) with          *)
(* r = size when the search ends on the last cell without an approximate   *)
(* match: on an axis of one element, and at a last element that is         *)
(* negative (IsApproxEqual is false there).                                *)
(***************************************************************************)
ResolvesWithin(i, v) ==
    /\ GetPositionInfo(i - 1, v).ok
    /\ GetPositionInfo(i - 1, v).val[1] + 1 < Len(_indepData[i])

C17_InDomainResolves ==
    (/\ last.op \in ThroughLookupByValues
     /\ Valid
     /\ OwnArity
     /\ ~GivenNull
     /\ InDomain(GivenTuple))
    => /\ \A i \in 1..Dimensions : ResolvesWithin(i, GivenTuple[i])
       /\ last.ok = TRUE

(***************************************************************************)
(* C18: whenever GetPositionInfo succeeds for the value v on axis i, the   *)
(* low index has a successor on the axis, the fraction is                  *)
(* (v - axis[low]) / (axis[low + 1] - axis[low]) and lies in [0, 1], and   *)
(* it is 1 only through the edge correction: v is the last element of the  *)
(* axis, found at the last index, and the low index is the one before it.  *)
(* Stated for the values of the latest lookup by values.                   *)
(***************************************************************************)
\* the fraction of the way from axis[low] to axis[low + 1] (0-based) at v
FractionOn(axis, low, v) ==
    RDiv(RSub(v, axis[low + 1]), RSub(axis[low + 2], axis[low + 1]))

\* the 0-based index the edge correction starts from
FoundAt(i, v) == Trunc(GetApproxPos(i - 1, v).val)

ResolvedAsSpecified(i, v, low, frac) ==
    /\ low >= 0
    /\ low + 1 < Len(_indepData[i])
    /\ frac = FractionOn(_indepData[i], low, v)
    /\ RLe(R(0), frac)
    /\ RLe(frac, R(1))
    /\ frac = R(1) => /\ v = _indepData[i][Len(_indepData[i])]
                      /\ FoundAt(i, v) = Len(_indepData[i]) - 1
                      /\ low = FoundAt(i, v) - 1

C18_PositionFraction ==
    (last.op \in ThroughLookupByValues /\ Valid /\ ~GivenNull)
    => \A i \in 1..Dimensions :
          (i <= Len(GivenTuple) /\ GetPositionInfo(i - 1, GivenTuple[i]).ok)
          => ResolvedAsSpecified(i, GivenTuple[i],
                                 GetPositionInfo(i - 1, GivenTuple[i]).val[1],
                                 GetPositionInfo(i - 1, GivenTuple[i]).val[2])

\* a lookup that succeeded with one value at the end of its axis (fraction 1
\* by the edge correction) and another strictly inside a cell
C18_Witness ==
    /\ last.op = "LookupByValues"
    /\ Valid
    /\ OwnArity
    /\ last.ok = TRUE
    /\ Len(GivenTuple) = Dimensions
    /\ \E i \in 1..Dimensions :
          /\ Len(_indepData[i]) = 3
          /\ GetPositionInfo(i - 1, GivenTuple[i]).val = <<1, R(1)>>
    /\ \E i \in 1..Dimensions :
          /\ RLt(R(0), GetPositionInfo(i - 1, GivenTuple[i]).val[2])
          /\ RLt(GetPositionInfo(i - 1, GivenTuple[i]).val[2], R(1))

(***************************************************************************)
(* C19: in LookupTableND::LookupByValues the corner order and the collapse *)
(* order agree.  In collapse round k (k = 0..D-1) the Lerp calls are, in   *)
(* order of the choices made on the axes before axis D-1-k, the blend of   *)
(* the partial result taking the low index on axis D-1-k (first operand)   *)
(* with the one taking low + 1 (second operand), at that axis's fraction;  *)
(* and the value returned is the sum over the 2^D corners of the corner's  *)
(* value times the product over the axes of fraction_i (corner at          *)
(* low_i + 1) or 1 - fraction_i (corner at low_i).                         *)
(***************************************************************************)
\* low indices and fractions GetPositionInfo gives for the first D values of t
LowOf(t) == [i \in 1..Dimensions |-> GetPositionInfo(i - 1, t[i]).val[1]]
FracOf(t) == [i \in 1..Dimensions |-> GetPositionInfo(i - 1, t[i]).val[2]]

\* the stored value at the corner taking low[i] + c[i] on every axis i
CornerValue(low, c) == _depData[Offset([i \in 1..Len(low) |-> low[i] + c[i]]) + 1]

RECURSIVE Nested(_, _, _)
\* interpolation along the axes after the first Len(c), one axis at a time,
\* at the corner choices c on the first Len(c) axes
Nested(low, frac, c) ==
    IF Len(c) = Len(low)
    THEN CornerValue(low, c)
    ELSE Lerp(Nested(low, frac, Append(c, 0)), Nested(low, frac, Append(c, 1)),
              frac[Len(c) + 1])

RECURSIVE WeightedCorners(_, _, _, _)
\* the sum, over the corners extending c, of the corner's value times w times
\* the weights of its choices on the axes after the first Len(c)
WeightedCorners(low, frac, c, w) ==
    IF Len(c) = Len(low)
    THEN RMul(w, CornerValue(low, c))
    ELSE RAdd(WeightedCorners(low, frac, Append(c, 0),
                              RMul(w, RSub(R(1), frac[Len(c) + 1]))),
              WeightedCorners(low, frac, Append(c, 1), RMul(w, frac[Len(c) + 1])))

RECURSIVE Choices(_)
\* the choices of low (0) or low + 1 (1) on n axes, the last axis varying fastest
Choices(n) ==
    IF n = 0
    THEN << <<>> >>
    ELSE [j \in 1..(2 * Len(Choices(n - 1))) |->
             Append(Choices(n - 1)[(j + 1) \div 2], (j + 1) % 2)]

\* the Lerp calls of the collapse round that blends along axis n (1-based)
RoundOn(low, frac, n) ==
    [j \in 1..Len(Choices(n - 1)) |->
        <<Nested(low, frac, Append(Choices(n - 1)[j], 0)),
          Nested(low, frac, Append(Choices(n - 1)[j], 1)),
          frac[n]>>]

RECURSIVE RoundsDownFrom(_, _, _)
\* the rounds on axis n, then n - 1, ..., then the first axis
RoundsDownFrom(low, frac, n) ==
    IF n = 0 THEN <<>> ELSE RoundOn(low, frac, n) \o RoundsDownFrom(low, frac, n - 1)

GenericOps == {"LookupByValues", "QueryByValues/bool", "QueryByValues/Result"}

C19_CollapseOrder ==
    (/\ kind = "ND"
     /\ last.op \in GenericOps
     /\ ~GivenNull
     /\ last.ok = TRUE)
    => /\ LerpOperandsND(GivenTuple)
            = RoundsDownFrom(LowOf(GivenTuple), FracOf(GivenTuple), Dimensions)
       /\ last.val = WeightedCorners(LowOf(GivenTuple), FracOf(GivenTuple), <<>>, R(1))

\* a generic lookup on three axes at three different fractions, one of them
\* strictly inside a cell
C19_Witness ==
    /\ kind = "ND"
    /\ last.op = "LookupByValues"
    /\ last.ok = TRUE
    /\ Dimensions = 3
    /\ \E i, j, k \in 1..3 :
          /\ RLt(FracOf(GivenTuple)[i], FracOf(GivenTuple)[j])
          /\ RLt(FracOf(GivenTuple)[j], FracOf(GivenTuple)[k])
    /\ last.val = WeightedCorners(LowOf(GivenTuple), FracOf(GivenTuple), <<>>, R(1))

(***************************************************************************)
(* C20: IsApproxEqual(a, b) holds exactly when                             *)
(* |a - b| <= max(|a|, |b|) * epsilon * 5; in particular it is reflexive   *)
(* on every value, negative ones included, and symmetric.  Stated for the  *)
(* comparisons GetApproxPos makes in a lookup by values: each given value  *)
(* against the elements of its axis.  The code scales epsilon by           *)
(* std::max(A, B), not by the larger magnitude, so the bound is negative   *)
(* when both values are and no negative value is approximately equal to    *)
(* itself.                                                                 *)
(***************************************************************************)
\* |a - b| <= max(|a|, |b|) * 2^-52 * 5
ApproxEqualAsSpecified(a, b) ==
    LET diff == RAbs(RSub(a, b))
        max == RMax(RAbs(a), RAbs(b))
    IN  diff[1] * max[2]
           <= ((kEpsFactor * max[1] * diff[2]) \div kEpsInvSqrt) \div kEpsInvSqrt

C20_ApproxEquality ==
    (last.op \in ThroughLookupByValues /\ Valid /\ ~GivenNull)
    => \A i \in 1..Dimensions : \A j \in 1..Len(_indepData[i]) :
          i <= Len(GivenTuple)
          => /\ IsApproxEqual(GivenTuple[i], _indepData[i][j])
                   = ApproxEqualAsSpecified(GivenTuple[i], _indepData[i][j])
             /\ IsApproxEqual(GivenTuple[i], _indepData[i][j])
                   = IsApproxEqual(_indepData[i][j], GivenTuple[i])
             /\ IsApproxEqual(GivenTuple[i], GivenTuple[i])
             /\ IsApproxEqual(_indepData[i][j], _indepData[i][j])

(***************************************************************************)
(* C21: no validation, lookup or metadata call changes the table.  A step  *)
(* that is a call of IsValidSourceData, of an index-at, by-indices or      *)
(* by-values lookup (any form, succeeding or failing) or of Valid,         *)
(* Dimensions, DepDataSize, IndepDataSize leaves the axes, the values and  *)
(* the valid flag as they were; every step that changes one of them is a   *)
(* PopulateData or a ResetData.                                            *)
(***************************************************************************)
MetadataOps == {"Valid", "Dimensions", "DepDataSize", "IndepDataSize"}
ReadingOps == ValidateOps \cup LookupOps \cup MetadataOps
WritingOps == PopulateOps \cup {"ResetData"}

InSearch == last.op = "GetApproxPos" /\ last.at = "while"
PastSearch == last.op = "GetApproxPos" /\ last.at = "exit"

\* the step is an iteration of the loop
Iterates == InSearch /\ last.l < last.m /\ last.m < last.r /\ last' # last

BreaksOrShrinks ==
    \/ /\ last'.at = "exit"
       /\ last'.l = last.m
       /\ last'.r = last.m
       /\ IsApproxEqual(last.in[2], SearchData[last.m + 1])
    \/ /\ last'.at = "while"
       /\ last'.r - last'.l < last.r - last.l
       /\ last'.r - last'.l > 0

ExitBracket ==
    /\ \/ last.l = last.r /\ last.l < Len(SearchData)
       \/ last.r = last.l + 1
    /\ <<last.l, last.r>> = SearchFrom(SearchData, last.in[2], 0, Len(SearchData))

C22_SearchTerminates ==
    /\ [][Iterates => BreaksOrShrinks]_vars
    /\ [](PastSearch => ExitBracket)
    /\ (InSearch ~> PastSearch)

\* a search on an axis of three elements that left the loop after two
\* iterations without a match, on the middle cell
C22_Witness ==
    /\ PastSearch
    /\ Len(SearchData) = 3
    /\ last.l = 1
    /\ last.r = 2

====
